---- MODULE Spec2Model ----
(***************************************************************************)
(* A model of pronto's RDF/XML parser (src/pronto/parsers/rdfxml.py).      *)
(*                                                                         *)
(* The parser reads an OWL document that was loaded into an element tree   *)
(* and fills an ontology: metadata, terms, relationships.  The model keeps *)
(* the document as a record of element lists, the ontology tables as       *)
(* functions from identifiers to data records, and walks the document in   *)
(* the order of parse_from, one element per step.                          *)
(*                                                                         *)
(* Strings are sequences of tokens.  A token is one character, except the  *)
(* few named below which stand for a fixed literal of the source.          *)
(***************************************************************************)
EXTENDS Integers, Sequences, FiniteSets, TLC

VARIABLES doc, pc, idx, meta, imports, terms, rels, aliases, diags, error, done, resolved

vars == <<doc, pc, idx, meta, imports, terms, rels, aliases, diags, error, done, resolved>>

(***************************************************************************)
(* Strings                                                                 *)
(***************************************************************************)

\* Python's None, as a value of the type of strings.
None == <<"None">>

\* "http://purl.obolibrary.org/obo/", the literal of the two regular
\* expressions of _compact_id.
OBO == "http://purl.obolibrary.org/obo/"

\* "http://www.w3.org/2001/XMLSchema#"
XSD == "http://www.w3.org/2001/XMLSchema#"

\* "http://www.geneontology.org/formats/oboInOwl#"
OIO == "http://www.geneontology.org/formats/oboInOwl#"

\* "http://www.w3.org/2002/07/owl#"
OWL == "http://www.w3.org/2002/07/owl#"

\* Tokens that stand for more than one character: these, and the names that
\* follow OIO and OWL in the IRIs of the vocabulary.
LongTokens == {OBO, XSD, OIO, OWL, "obo", "owl", "true", "None", "IAO", "0000115"}

Range(s) == {s[i] : i \in 1..Len(s)}

DropFirst(s, n) == SubSeq(s, n + 1, Len(s))

StartsWith(s, p) == Len(s) >= Len(p) /\ SubSeq(s, 1, Len(p)) = p

\* str.isspace(): non empty and only white space.
IsSpace(s) == s # <<>> /\ Range(s) \subseteq {" ", "\n"}

\* The regular expression (.*)$ applied to the end of a string: "." matches
\* no newline, "$" matches at the end and before a final newline.
DotStarMatches(s) == \A i \in 1..Len(s) : s[i] = "\n" => i = Len(s)

DotStarGroup(s) == IF s # <<>> /\ s[Len(s)] = "\n" THEN SubSeq(s, 1, Len(s) - 1) ELSE s

\* Index of the first token of s that is in set T, 0 when there is none.
FirstIn(s, T) ==
    IF \E i \in 1..Len(s) : s[i] \in T
    THEN CHOOSE i \in 1..Len(s) : s[i] \in T /\ \A j \in 1..(i - 1) : s[j] \notin T
    ELSE 0

\* First regular expression of _compact_id: ^OBO([^#_]+)_(.*)$
MatchesPrefixed(iri) ==
    /\ StartsWith(iri, <<OBO>>)
    /\ LET rest == DropFirst(iri, 1)
           k == FirstIn(rest, {"#", "_"})
       IN  /\ k > 1
           /\ rest[k] = "_"
           /\ DotStarMatches(DropFirst(rest, k))

\* Second regular expression of _compact_id: ^OBO{id_}#(.*)$
MatchesOwn(iri, id) ==
    /\ StartsWith(iri, <<OBO>> \o id \o <<"#">>)
    /\ DotStarMatches(DropFirst(iri, Len(id) + 2))

\* _compact_id, with the ontology identifier of the metadata as a parameter.
CompactId(iri, ontology) ==
    IF MatchesPrefixed(iri)
    THEN LET rest == DropFirst(iri, 1)
             k == FirstIn(rest, {"#", "_"})
         IN  SubSeq(rest, 1, k - 1) \o <<":">> \o DotStarGroup(DropFirst(rest, k))
    ELSE IF ontology # None /\ MatchesOwn(iri, ontology)
         THEN DotStarGroup(DropFirst(iri, Len(ontology) + 2))
         ELSE iri

\* _compact_datatype: ^XSD(.*)$, a ValueError otherwise.
DatatypeOk(iri) == StartsWith(iri, <<XSD>>) /\ DotStarMatches(DropFirst(iri, 1))

CompactDatatype(iri) == <<"x", "s", "d", ":">> \o DotStarGroup(DropFirst(iri, 1))

(***************************************************************************)
(* The document                                                            *)
(*                                                                         *)
(* An element is a record: its tag, the attributes rdf:resource, rdf:about *)
(* and rdf:datatype (None when absent), its text (None when absent) and    *)
(* its children in document order.                                         *)
(***************************************************************************)

Elem(tag, about, resource, datatype, text, kids) ==
    [tag |-> tag, about |-> about, resource |-> resource, datatype |-> datatype,
     text |-> text, kids |-> kids]

\* Element.find(tag): the first child with that tag; NoElem stands for None.
NoElem == Elem("", None, None, None, None, <<>>)

Find(elem, tag) ==
    LET k == FirstIn([i \in 1..Len(elem.kids) |-> elem.kids[i].tag], {tag})
    IN  IF k = 0 THEN NoElem ELSE elem.kids[k]

\* Element.iterfind(tag): the children with that tag, in document order.
IterFind(elem, tag) == SelectSeq(elem.kids, LAMBDA c : c.tag = tag)

\* The text of a child as the extractors read it: white space only is None.
TextOf(child) == IF child.text # None /\ IsSpace(child.text) THEN None ELSE child.text

\* attrib.get(rdf:resource, text)
ResourceOrText(child) == IF child.resource # None THEN child.resource ELSE TextOf(child)

(***************************************************************************)
(* Vocabulary tables                                                       *)
(***************************************************************************)

\* _SYNONYMS_ATTRIBUTES: tag of a synonym child -> scope.
SynonymTags == {"oboInOwl:hasExactSynonym", "oboInOwl:hasBroadSynonym",
                "oboInOwl:hasNarrowSynonym", "oboInOwl:hasRelatedSynonym"}

ScopeOfTag(tag) ==
    CASE tag = "oboInOwl:hasExactSynonym" -> "EXACT"
      [] tag = "oboInOwl:hasBroadSynonym" -> "BROAD"
      [] tag = "oboInOwl:hasNarrowSynonym" -> "NARROW"
      [] tag = "oboInOwl:hasRelatedSynonym" -> "RELATED"

\* _SYNONYMS: IRI of a synonym property -> scope.
SynonymIris ==
    {<<OIO, "hasExactSynonym">>, <<OIO, "hasBroadSynonym">>,
     <<OIO, "hasNarrowSynonym">>, <<OIO, "hasRelatedSynonym">>}

ScopeOfIri(iri) ==
    CASE iri = <<OIO, "hasExactSynonym">> -> "EXACT"
      [] iri = <<OIO, "hasBroadSynonym">> -> "BROAD"
      [] iri = <<OIO, "hasNarrowSynonym">> -> "NARROW"
      [] iri = <<OIO, "hasRelatedSynonym">> -> "RELATED"

\* _NS["obo"].raw("IAO_0000115") and _NS["oboInOwl"].raw("hasDbXref").
DefinitionIri == <<OBO, "IAO", "_", "0000115">>

HasDbXrefIri == <<OIO, "hasDbXref">>

\* The six characteristics of owl, as the resource of an rdf:type child.
CharacteristicIris ==
    {<<OWL, "TransitiveProperty">>, <<OWL, "ReflexiveProperty">>,
     <<OWL, "SymmetricProperty">>, <<OWL, "AsymmetricProperty">>,
     <<OWL, "FunctionalProperty">>, <<OWL, "InverseFunctionalProperty">>}

(***************************************************************************)
(* Records of the ontology                                                 *)
(***************************************************************************)

NoDefinition == [text |-> None, xrefs |-> {}]

Definition(text) == [text |-> text, xrefs |-> {}]

SynonymData(description, scope, type) ==
    [description |-> description, scope |-> scope, type |-> type, xrefs |-> {}]

\* Xref(id, description): the constructor rejects a malformed identifier.
XrefValid(id) == id # <<>> /\ id # None /\ " " \notin Range(id) /\ "\n" \notin Range(id)

Xref(id, description) == [id |-> id, description |-> description]

\* set.add of a cross-reference: cross-references are equal by target.
AddXref(S, x) == IF \E y \in S : y.id = x.id THEN S ELSE S \cup {x}

\* set.add of a synonym: a synonym is identified by (description, scope).
AddSynonym(S, x) ==
    IF \E y \in S : y.description = x.description /\ y.scope = x.scope THEN S ELSE S \cup {x}

ResourcePropertyValue(tag, resource) ==
    [property |-> tag, value |-> resource, datatype |-> None]

LiteralPropertyValue(tag, text, datatype) ==
    [property |-> tag, value |-> text, datatype |-> datatype]

Metadata ==
    [ontology |-> None, format_version |-> None, data_version |-> None,
     saved_by |-> None, auto_generated_by |-> None, default_namespace |-> None,
     date |-> None, namespace_id_rule |-> None, remarks |-> {}, imports |-> {},
     annotations |-> {}, synonymtypedefs |-> {}, subsetdefs |-> {}]

TermData(id) ==
    [id |-> id, name |-> None, namespace |-> None, definition |-> NoDefinition,
     comment |-> None, synonyms |-> {}, xrefs |-> {}, subsets |-> {}, is_a |-> {},
     alternate_ids |-> {}, obsolete |-> FALSE, replaced_by |-> {}, consider |-> {},
     equivalent_to |-> {}, disjoint_from |-> {}, created_by |-> None,
     creation_date |-> None, annotations |-> {}]

NoFlags ==
    [transitive |-> FALSE, reflexive |-> FALSE, symmetric |-> FALSE, asymmetric |-> FALSE,
     functional |-> FALSE, inverse_functional |-> FALSE, cyclic |-> FALSE,
     antisymmetric |-> FALSE]

RelationshipData(id) ==
    [id |-> id, name |-> None, namespace |-> None, definition |-> NoDefinition,
     comment |-> None, synonyms |-> {}, xrefs |-> {}, subsets |-> {}, is_a |-> {},
     alternate_ids |-> {}, obsolete |-> FALSE, replaced_by |-> {}, consider |-> {},
     equivalent_to |-> {}, created_by |-> None, creation_date |-> None,
     annotations |-> {}, domain |-> None, range |-> None, flags |-> NoFlags]

(***************************************************************************)
(* The ontology aggregate: two tables keyed by identifier.                 *)
(***************************************************************************)

\* id in ontology: one membership test over both tables.
Contains(ts, rs, id) == id \in DOMAIN ts \/ id \in DOMAIN rs

\* get_term(id) fails with a KeyError when no term has that identifier.
GetTermOk(ts, id) == id \in DOMAIN ts

\* get_relationship(id) fails with a KeyError when no relationship has it.
GetRelationshipOk(rs, id) == id \in DOMAIN rs

\* create_term(id) / create_relationship(id): a new record under id.
CreateTerm(ts, id) == (id :> TermData(id)) @@ ts

CreateRelationship(rs, id) == (id :> RelationshipData(id)) @@ rs

\* ontology[id]: the term or the relationship of that identifier.
LookupOk(ts, rs, id) == Contains(ts, rs, id)

\* process_imports: every imported IRI mapped to its loaded ontology.
ProcessImports(iris) == {<<i, "ontology">> : i \in iris}

(***************************************************************************)
(* Extraction of one element: a fold over its children.  The state of the  *)
(* fold is the data record being filled, the labels and comments met so    *)
(* far, the diagnostics emitted and the exception that ended it, if any.   *)
(***************************************************************************)

Warn(st, kind) == [st EXCEPT !.diags = Append(@, kind)]

Raise(st, exc) == [st EXCEPT !.err = exc]

\* dateutil.parser.parse accepts the text: digits and dashes after a digit.
DateutilOk(text) ==
    text # <<>> /\ text[1] \in {"1", "2"} /\ Range(text) \subseteq {"1", "2", "-"}

\* _extract_resource_pv and _extract_literal_pv on a child, added to the
\* annotations of the data record; the literal needs a known datatype.
AddResourcePv(st, child) ==
    [st EXCEPT !.d.annotations = @ \cup {ResourcePropertyValue(child.tag, child.resource)}]

AddLiteralPv(st, child) ==
    LET st1 == IF child.datatype = None THEN Warn(st, "no_datatype") ELSE st
        datatype == IF child.datatype = None THEN <<XSD, "s">> ELSE child.datatype
    IN  IF DatatypeOk(datatype)
        THEN [st1 EXCEPT !.d.annotations =
                 @ \cup {LiteralPropertyValue(child.tag, child.text, CompactDatatype(datatype))}]
        ELSE Raise(st1, "ValueError")

\* The last branch of both extractors: an annotation, or an unknown child.
OtherChild(st, child, text) ==
    IF child.resource # None THEN AddResourcePv(st, child)
    ELSE IF child.datatype # None /\ text # None THEN AddLiteralPv(st, child)
    ELSE Warn(st, "unknown_child")

\* The branches of replaced-by and consider, the same in both extractors.
SuccessorChild(st, child, text, field, ontology) ==
    IF child.resource # None
    THEN [st EXCEPT !.d[field] = @ \cup {CompactId(child.resource, ontology)}]
    ELSE IF child.datatype # None
         THEN IF text = None THEN Raise(st, "TypeError")
              ELSE [st EXCEPT !.d[field] = @ \cup {CompactId(text, ontology)}]
         ELSE Warn(st, field)

\* One child of an owl:Class element (the body of the loop of _extract_term).
TermChild(st, child, m) ==
    LET tag == child.tag
        text == TextOf(child)
        ont == m.ontology
    IN
    IF tag = "rdfs:subClassOf" THEN
        IF child.resource # None
        THEN [st EXCEPT !.d.is_a = @ \cup {CompactId(child.resource, ont)}]
        ELSE st
    ELSE IF tag = "oboInOwl:inSubset" THEN
        IF ResourceOrText(child) # None
        THEN [st EXCEPT !.d.subsets = @ \cup {CompactId(ResourceOrText(child), ont)}]
        ELSE Warn(st, "subset")
    ELSE IF tag = "rdfs:comment" /\ text # None THEN
        [st EXCEPT !.comments = Append(@, text)]
    ELSE IF tag \in {"oboInOwl:created_by", "dc:creator"} THEN
        [st EXCEPT !.d.created_by = text]
    ELSE IF tag \in {"oboInOwl:creation_date", "dc:date"} THEN
        IF text = None THEN Raise(st, "TypeError")
        ELSE IF DateutilOk(text) THEN [st EXCEPT !.d.creation_date = text]
        ELSE Raise(st, "ValueError")
    ELSE IF tag = "oboInOwl:hasOBONamespace" THEN
        IF text # m.default_namespace THEN [st EXCEPT !.d.namespace = text] ELSE st
    ELSE IF tag = "rdfs:label" THEN
        IF text # None THEN [st EXCEPT !.names = Append(@, text)] ELSE Warn(st, "label")
    ELSE IF tag = "obo:IAO_0000115" /\ text # None THEN
        [st EXCEPT !.d.definition = Definition(text)]
    ELSE IF tag \in SynonymTags THEN
        IF ResourceOrText(child) # None
        THEN [st EXCEPT !.d.synonyms =
                 AddSynonym(@, SynonymData(ResourceOrText(child), ScopeOfTag(tag), None))]
        ELSE Warn(st, "synonym")
    ELSE IF tag = "owl:equivalentClass" /\ text # None THEN
        [st EXCEPT !.d.equivalent_to = @ \cup {CompactId(text, ont)}]
    ELSE IF tag = "owl:deprecated" THEN
        [st EXCEPT !.d.obsolete = (text = <<"true">>)]
    ELSE IF tag = "oboInOwl:hasDbXref" THEN
        IF text # None
        THEN IF XrefValid(text) THEN [st EXCEPT !.d.xrefs = AddXref(@, Xref(text, None))]
             ELSE st
        ELSE IF child.resource = None THEN Raise(st, "KeyError")
        ELSE IF XrefValid(child.resource)
             THEN [st EXCEPT !.d.xrefs = AddXref(@, Xref(child.resource, None))]
             ELSE st
    ELSE IF tag = "oboInOwl:hasAlternativeId" THEN
        IF child.resource # None
        THEN [st EXCEPT !.d.alternate_ids = @ \cup {CompactId(child.resource, ont)}]
        ELSE IF text = None THEN Raise(st, "TypeError")
        ELSE [st EXCEPT !.d.alternate_ids = @ \cup {CompactId(text, ont)}]
    ELSE IF tag = "owl:disjointWith" THEN
        IF child.resource # None
        THEN [st EXCEPT !.d.disjoint_from = @ \cup {CompactId(child.resource, ont)}]
        ELSE Warn(st, "disjoint")
    ELSE IF tag = "obo:IAO_0100001" THEN SuccessorChild(st, child, text, "replaced_by", ont)
    ELSE IF tag = "oboInOwl:consider" THEN SuccessorChild(st, child, text, "consider", ont)
    ELSE IF tag # "oboInOwl:id" THEN OtherChild(st, child, text)
    ELSE st

\* The chain of rdf:type with one branch copied and its flag left as it was:
\* a symmetric property is marked asymmetric.
SetCharacteristicCopied(flags, resource) ==
    IF resource = <<OWL, "TransitiveProperty">> THEN [flags EXCEPT !.transitive = TRUE]
    ELSE IF resource = <<OWL, "ReflexiveProperty">> THEN [flags EXCEPT !.reflexive = TRUE]
    ELSE IF resource = <<OWL, "SymmetricProperty">> THEN [flags EXCEPT !.asymmetric = TRUE]
    ELSE IF resource = <<OWL, "AsymmetricProperty">> THEN [flags EXCEPT !.asymmetric = TRUE]
    ELSE IF resource = <<OWL, "FunctionalProperty">> THEN [flags EXCEPT !.functional = TRUE]
    ELSE IF resource = <<OWL, "InverseFunctionalProperty">>
         THEN [flags EXCEPT !.inverse_functional = TRUE]
    ELSE flags

\* The resource of an rdf:type child -> the flags with that characteristic set.
SetCharacteristic(flags, resource) ==
    IF resource = <<OWL, "TransitiveProperty">> THEN [flags EXCEPT !.transitive = TRUE]
    ELSE IF resource = <<OWL, "ReflexiveProperty">> THEN [flags EXCEPT !.reflexive = TRUE]
    ELSE IF resource = <<OWL, "SymmetricProperty">> THEN [flags EXCEPT !.symmetric = TRUE]
    ELSE IF resource = <<OWL, "AsymmetricProperty">> THEN [flags EXCEPT !.asymmetric = TRUE]
    ELSE IF resource = <<OWL, "FunctionalProperty">> THEN [flags EXCEPT !.functional = TRUE]
    ELSE IF resource = <<OWL, "InverseFunctionalProperty">>
         THEN [flags EXCEPT !.inverse_functional = TRUE]
    ELSE flags

\* Python's "resource or about" on two optional strings.
Truthy(s) == s # None /\ s # <<>>

\* One child of an owl:ObjectProperty element (the body of the loop of
\* _extract_object_property).
RelationshipChild(st, child, m) ==
    LET tag == child.tag
        text == TextOf(child)
        ont == m.ontology
    IN
    IF tag = "rdfs:subObjectPropertyOf" THEN
        IF child.resource # None
        THEN [st EXCEPT !.d.is_a = @ \cup {CompactId(child.resource, ont)}]
        ELSE st
    ELSE IF tag = "oboInOwl:inSubset" THEN
        IF Truthy(child.resource)
        THEN [st EXCEPT !.d.subsets = @ \cup {CompactId(child.resource, ont)}]
        ELSE IF Truthy(child.about)
             THEN [st EXCEPT !.d.subsets = @ \cup {CompactId(child.about, ont)}]
             ELSE Warn(st, "subset")
    ELSE IF tag = "rdf:type" THEN
        [st EXCEPT !.d.flags = SetCharacteristic(@, child.resource)]
    ELSE IF tag = "rdfs:comment" /\ text # None THEN
        [st EXCEPT !.comments = Append(@, text)]
    ELSE IF tag \in {"oboInOwl:created_by", "dc:creator"} THEN
        [st EXCEPT !.d.created_by = text]
    ELSE IF tag \in {"oboInOwl:creation_date", "dc:date"} /\ text # None THEN
        IF DateutilOk(text) THEN [st EXCEPT !.d.creation_date = text]
        ELSE Raise(st, "ValueError")
    ELSE IF tag = "oboInOwl:hasOBONamespace" THEN
        IF text # m.default_namespace THEN [st EXCEPT !.d.namespace = text] ELSE st
    ELSE IF tag = "rdfs:label" THEN
        IF text # None THEN [st EXCEPT !.names = Append(@, text)] ELSE Warn(st, "label")
    ELSE IF tag = "rdfs:domain" /\ child.resource # None THEN
        [st EXCEPT !.d.domain = CompactId(child.resource, ont)]
    ELSE IF tag = "rdfs:range" /\ child.resource # None THEN
        [st EXCEPT !.d.range = CompactId(child.resource, ont)]
    ELSE IF tag = "obo:IAO_0000115" /\ text # None THEN
        [st EXCEPT !.d.definition = Definition(text)]
    ELSE IF tag \in SynonymTags THEN
        [st EXCEPT !.d.synonyms =
            AddSynonym(@, SynonymData(ResourceOrText(child), ScopeOfTag(tag), None))]
    ELSE IF tag = "oboInOwl:is_cyclic" /\ text # None THEN
        [st EXCEPT !.d.flags.cyclic = (text = <<"true">>)]
    ELSE IF tag = "obo:IAO_0000427" /\ text # None THEN
        [st EXCEPT !.d.flags.antisymmetric = (text = <<"true">>)]
    ELSE IF tag = "owl:equivalentClass" /\ text # None THEN
        [st EXCEPT !.d.equivalent_to = @ \cup {CompactId(text, ont)}]
    ELSE IF tag = "owl:deprecated" THEN
        [st EXCEPT !.d.obsolete = (text = <<"true">>)]
    ELSE IF tag = "oboInOwl:hasDbXref" THEN
        IF text # None
        THEN IF XrefValid(text) THEN [st EXCEPT !.d.xrefs = AddXref(@, Xref(text, None))]
             ELSE Raise(st, "ValueError")
        ELSE IF child.resource = None THEN Raise(st, "KeyError")
        ELSE IF XrefValid(child.resource)
             THEN [st EXCEPT !.d.xrefs = AddXref(@, Xref(child.resource, None))]
             ELSE Raise(st, "ValueError")
    ELSE IF tag = "oboInOwl:hasAlternativeId" /\ text # None THEN
        [st EXCEPT !.d.alternate_ids = @ \cup {text}]
    ELSE IF tag = "obo:IAO_0100001" THEN SuccessorChild(st, child, text, "replaced_by", ont)
    ELSE IF tag = "oboInOwl:consider" THEN SuccessorChild(st, child, text, "consider", ont)
    ELSE IF tag \notin {"oboInOwl:id", "oboInOwl:shorthand"} THEN OtherChild(st, child, text)
    ELSE st

\* The loop over the children: it stops at the first exception, and what the
\* children before it wrote stays written.
RECURSIVE FoldTerm(_, _, _)
FoldTerm(st, kids, m) ==
    IF kids = <<>> \/ st.err # "" THEN st
    ELSE FoldTerm(TermChild(st, Head(kids), m), Tail(kids), m)

RECURSIVE FoldRelationship(_, _, _)
FoldRelationship(st, kids, m) ==
    IF kids = <<>> \/ st.err # "" THEN st
    ELSE FoldRelationship(RelationshipChild(st, Head(kids), m), Tail(kids), m)

\* "\n".join(comments)
RECURSIVE JoinLines(_)
JoinLines(lines) ==
    IF Len(lines) = 1 THEN lines[1]
    ELSE lines[1] \o <<"\n">> \o JoinLines(Tail(lines))

\* A label policy that lets the last label win.
ApplyNamesLast(st) ==
    IF st.names = <<>> THEN st
    ELSE LET st1 == IF Len(st.names) > 1 THEN Warn(st, "several_names") ELSE st
         IN  [st1 EXCEPT !.d.name = st.names[Len(st.names)]]

\* The label policy: the first label is the name, a diagnostic for several.
ApplyNames(st) ==
    IF st.names = <<>> THEN st
    ELSE LET st1 == IF Len(st.names) > 1 THEN Warn(st, "several_names") ELSE st
         IN  [st1 EXCEPT !.d.name = st.names[1]]

\* The comment policy: all comments joined, a diagnostic for several.
ApplyComments(st) ==
    IF st.comments = <<>> THEN st
    ELSE LET st1 == IF Len(st.comments) > 1 THEN Warn(st, "several_comments") ELSE st
         IN  [st1 EXCEPT !.d.comment = JoinLines(st.comments)]

PostProcess(st) == IF st.err # "" THEN st ELSE ApplyComments(ApplyNames(st))

FoldState(d) == [d |-> d, names |-> <<>>, comments |-> <<>>, diags |-> <<>>, err |-> ""]

\* The identifier of a class element: the text of its oboInOwl:id child when
\* it has one that is not empty, else the compacted subject IRI.
TermId(elem, m) ==
    LET e == Find(elem, "oboInOwl:id")
    IN  IF e # NoElem /\ Truthy(e.text) THEN e.text ELSE CompactId(elem.about, m.ontology)

\* A term extractor that creates the term anew at every class element.
GetOrCreateTermAnew(ts, rs, id) == [ok |-> TRUE, terms |-> CreateTerm(ts, id)]

\* get or create the term: [ok, terms].
GetOrCreateTerm(ts, rs, id) ==
    IF Contains(ts, rs, id)
    THEN [ok |-> GetTermOk(ts, id), terms |-> ts]
    ELSE [ok |-> TRUE, terms |-> CreateTerm(ts, id)]

\* _extract_term on one owl:Class element: the tables and diagnostics after
\* it, and the exception it raised ("" for none).
ExtractTerm(elem, ts, rs, m) ==
    IF elem.about = None THEN [terms |-> ts, diags |-> <<>>, err |-> ""]
    ELSE LET id == TermId(elem, m)
             got == GetOrCreateTerm(ts, rs, id)
         IN  IF ~got.ok THEN [terms |-> ts, diags |-> <<>>, err |-> "KeyError: id"]
             ELSE LET st == PostProcess(FoldTerm(FoldState(got.terms[id]), elem.kids, m))
                  IN  [terms |-> [got.terms EXCEPT ![id] = st.d],
                       diags |-> st.diags, err |-> st.err]

\* The identifier of an object property element and the alias it records:
\* shorthand, else oboInOwl:id, else the compacted subject IRI (no alias).
RelationshipAlias(elem) ==
    LET sh == Find(elem, "oboInOwl:shorthand")
        e == Find(elem, "oboInOwl:id")
    IN  IF sh # NoElem /\ sh.text # None THEN sh.text
        ELSE IF e # NoElem /\ e.text # None THEN e.text
        ELSE None

RelationshipId(elem, m) ==
    IF RelationshipAlias(elem) # None THEN RelationshipAlias(elem)
    ELSE CompactId(elem.about, m.ontology)

\* get or create the relationship: [ok, rels].
GetOrCreateRelationship(ts, rs, id) ==
    IF Contains(ts, rs, id)
    THEN [ok |-> GetRelationshipOk(rs, id), rels |-> rs]
    ELSE [ok |-> TRUE, rels |-> CreateRelationship(rs, id)]

\* _extract_object_property on one owl:ObjectProperty element.
ExtractObjectProperty(elem, ts, rs, al, m) ==
    IF elem.about = None THEN [rels |-> rs, aliases |-> al, diags |-> <<>>, err |-> ""]
    ELSE LET id == RelationshipId(elem, m)
             al1 == IF RelationshipAlias(elem) # None
                    THEN (elem.about :> id) @@ al ELSE al
             got == GetOrCreateRelationship(ts, rs, id)
         IN  IF ~got.ok THEN [rels |-> rs, aliases |-> al1, diags |-> <<>>, err |-> "KeyError: id"]
             ELSE LET st == PostProcess(
                               FoldRelationship(FoldState(got.rels[id]), elem.kids, m))
                  IN  [rels |-> [got.rels EXCEPT ![id] = st.d], aliases |-> al1,
                       diags |-> st.diags, err |-> st.err]

(***************************************************************************)
(* Metadata: _extract_meta on the owl:Ontology element.                    *)
(***************************************************************************)

\* "." of a regular expression on a token: one character, not a newline.
IsChar(t) == t \notin LongTokens /\ t # "\n"

\* A string without its final newline, as "$" sees it.
Chomp(s) == DotStarGroup(s)

\* ^OBO(.*).(obo|owl)$ : the ontology identifier inside the subject IRI.
MatchesOntologyIri(iri) ==
    LET s == Chomp(iri)
    IN  /\ Len(s) >= 3
        /\ s[1] = OBO
        /\ s[Len(s)] \in {"obo", "owl"}
        /\ IsChar(s[Len(s) - 1])
        /\ "\n" \notin Range(SubSeq(s, 2, Len(s) - 2))

OntologyId(iri) ==
    IF MatchesOntologyIri(iri) THEN SubSeq(Chomp(iri), 2, Len(Chomp(iri)) - 2) ELSE iri

\* ^OBO{0}/(.*)/{0}.(obo|owl)$ : the data version inside the version IRI.
MatchesVersionIri(iri, id) ==
    LET s == Chomp(iri)
        n == Len(id)
        tailLen == n + 3
    IN  /\ Len(s) >= 2 * n + 5
        /\ StartsWith(s, <<OBO>> \o id \o <<"/">>)
        /\ s[Len(s)] \in {"obo", "owl"}
        /\ IsChar(s[Len(s) - 1])
        /\ SubSeq(s, Len(s) - tailLen + 1, Len(s) - 2) = <<"/">> \o id
        /\ "\n" \notin Range(SubSeq(s, n + 3, Len(s) - tailLen))

DataVersion(iri, id) ==
    IF Truthy(iri) /\ id # None /\ MatchesVersionIri(iri, id)
    THEN SubSeq(Chomp(iri), Len(id) + 3, Len(Chomp(iri)) - Len(id) - 3)
    ELSE iri

\* The number a string of digits denotes.
RECURSIVE Num(_)
Num(s) ==
    IF s = <<>> THEN 0
    ELSE 10 * Num(SubSeq(s, 1, Len(s) - 1))
         + (CASE s[Len(s)] = "0" -> 0 [] s[Len(s)] = "1" -> 1 [] s[Len(s)] = "2" -> 2)

IsNumber(s, lo, hi, min, max) ==
    Len(s) \in lo..hi /\ Range(s) \subseteq {"0", "1", "2"} /\ Num(s) \in min..max

\* datetime.strptime(text, "%d:%m:%Y %H:%M") accepts the text.  The digits of
\* the model are 0, 1 and 2, and date and time are one space apart.
StrptimeOk(text) ==
    LET a == FirstIn(text, {":"})
        r1 == DropFirst(text, a)
        b == FirstIn(r1, {":"})
        r2 == DropFirst(r1, b)
        c == FirstIn(r2, {" "})
        r3 == DropFirst(r2, c)
        e == FirstIn(r3, {":"})
    IN  /\ a > 0 /\ b > 0 /\ c > 0 /\ e > 0
        /\ IsNumber(SubSeq(text, 1, a - 1), 1, 2, 1, 31)
        /\ IsNumber(SubSeq(r1, 1, b - 1), 1, 2, 1, 12)
        /\ IsNumber(SubSeq(r2, 1, c - 1), 4, 4, 1, 9999)
        /\ IsNumber(SubSeq(r3, 1, e - 1), 1, 2, 0, 23)
        /\ IsNumber(DropFirst(r3, e), 1, 2, 0, 59)

\* One child of the owl:Ontology element.
MetaChild(st, child) ==
    LET tag == child.tag
        text == child.text
    IN
    IF tag = "rdfs:comment" /\ text # None THEN [st EXCEPT !.d.remarks = @ \cup {text}]
    ELSE IF tag = "oboInOwl:hasOBOFormatVersion" THEN [st EXCEPT !.d.format_version = text]
    ELSE IF tag \in {"oboInOwl:saved-by", "oboInOwl:savedBy"} THEN
        [st EXCEPT !.d.saved_by = text]
    ELSE IF tag = "oboInOwl:auto-generated-by" THEN [st EXCEPT !.d.auto_generated_by = text]
    ELSE IF tag \in {"oboInOwl:default-namespace", "oboInOwl:hasDefaultNamespace"} THEN
        [st EXCEPT !.d.default_namespace = text]
    ELSE IF tag = "oboInOwl:date" THEN
        IF text = None THEN Raise(st, "TypeError")
        ELSE IF StrptimeOk(text) THEN [st EXCEPT !.d.date = text]
        ELSE Raise(st, "ValueError")
    ELSE IF tag = "oboInOwl:NamespaceIdRule" THEN [st EXCEPT !.d.namespace_id_rule = text]
    ELSE IF tag = "owl:imports" THEN [st EXCEPT !.d.imports = @ \cup {child.resource}]
    ELSE IF tag = "owl:versionIRI" THEN
        [st EXCEPT !.d.data_version = DataVersion(child.resource, st.d.ontology)]
    ELSE IF tag = "doap:Version" THEN [st EXCEPT !.d.data_version = text]
    ELSE IF child.resource # None THEN AddResourcePv(st, child)
    ELSE IF text # None THEN AddLiteralPv(st, child)
    ELSE Warn(st, "unknown_meta")

RECURSIVE FoldMeta(_, _)
FoldMeta(st, kids) ==
    IF kids = <<>> \/ st.err # "" THEN st
    ELSE FoldMeta(MetaChild(st, Head(kids)), Tail(kids))

\* _extract_meta: [d: the metadata, diags, err].
ExtractMeta(elem) ==
    LET m0 == IF elem.about # None
              THEN [Metadata EXCEPT !.ontology = OntologyId(elem.about)]
              ELSE Metadata
    IN  FoldMeta(FoldState(m0), elem.kids)

(***************************************************************************)
(* Annotation properties: _extract_annotation_property.                    *)
(***************************************************************************)

SynonymTypePropertyIri == <<OIO, "SynonymTypeProperty">>

SubsetPropertyIri == <<OIO, "SubsetProperty">>

\* _SYNONYMS.get(iri)
ScopeOrNone(iri) == IF iri \in SynonymIris THEN <<ScopeOfIri(iri)>> ELSE None

\* [meta, diags, err]
ExtractAnnotationProperty(elem, m) ==
    LET sub == Find(elem, "rdfs:subPropertyOf")
        label == Find(elem, "rdfs:label")
        scope == Find(elem, "oboInOwl:hasScope")
        comment == Find(elem, "rdfs:comment")
        out(m1, d, e) == [meta |-> m1, diags |-> d, err |-> e]
    IN
    IF sub # NoElem /\ sub.resource = SynonymTypePropertyIri THEN
        IF elem.about = None THEN out(m, <<>>, "KeyError")
        ELSE IF label = NoElem THEN out(m, <<>>, "AttributeError")
        ELSE IF scope # NoElem /\ scope.resource = None THEN out(m, <<>>, "KeyError")
        ELSE out([m EXCEPT !.synonymtypedefs = @ \cup
                     {[id |-> CompactId(elem.about, m.ontology), description |-> label.text,
                       scope |-> IF scope # NoElem THEN ScopeOrNone(scope.resource) ELSE None]}],
                 <<>>, "")
    ELSE IF sub # NoElem /\ sub.resource = SubsetPropertyIri THEN
        IF elem.about = None THEN out(m, <<>>, "KeyError")
        ELSE out([m EXCEPT !.subsetdefs = @ \cup
                     {[id |-> CompactId(elem.about, m.ontology),
                       description |-> IF comment # NoElem /\ Truthy(comment.text)
                                       THEN comment.text ELSE <<>>]}],
                 <<>>, "")
    ELSE out(m, <<"annotation_property">>, "")

(***************************************************************************)
(* Axioms: _process_axiom.                                                 *)
(***************************************************************************)

\* ontology[key]: the data of the term of that key, else of the relationship.
EntityOf(ts, rs, key) == IF key \in DOMAIN ts THEN ts[key] ELSE rs[key]

\* The tables after the data of ontology[key] was changed in place.
UpdateEntity(ts, rs, key, data) ==
    IF key \in DOMAIN ts
    THEN [terms |-> [ts EXCEPT ![key] = data], rels |-> rs]
    ELSE [terms |-> ts, rels |-> [rs EXCEPT ![key] = data]]

\* The element whose children the loops over hasDbXref, the label and the
\* synonym type are searched in.  The loop that checks the three structural
\* children binds the name elem again, and leaves it at the annotated target.
NestedIn(axiom) == Find(axiom, "owl:annotatedTarget")

\* An entity key that is the compacted source IRI, whatever the aliases.
AxiomKeyNoAlias(axiom, al, m) ==
    CompactId(Find(axiom, "owl:annotatedSource").resource, m.ontology)

\* The entity key of an axiom: the alias of the source IRI, compacted.
AxiomKey(axiom, al, m) ==
    LET iri == Find(axiom, "owl:annotatedSource").resource
        resource == IF iri \in DOMAIN al THEN al[iri] ELSE iri
    IN  CompactId(resource, m.ontology)

\* The cross-references nested in a definition axiom, added to a definition:
\* [d: the set, diags, err].
RECURSIVE DefinitionXrefs(_, _)
DefinitionXrefs(st, kids) ==
    IF kids = <<>> \/ st.err # "" THEN st
    ELSE LET child == Head(kids)
             st1 == IF child.text # None
                    THEN IF XrefValid(child.text)
                         THEN [st EXCEPT !.d = AddXref(@, Xref(child.text, None))]
                         ELSE Warn(st, "xref_parse")
                    ELSE IF child.resource # None
                         THEN IF XrefValid(child.resource)
                              THEN [st EXCEPT !.d = AddXref(@, Xref(child.resource, None))]
                              ELSE Raise(st, "ValueError")
                         ELSE Warn(st, "xref_no_text")
         IN  DefinitionXrefs(st1, Tail(kids))

\* The cross-references nested in a synonym axiom, added to a synonym.
RECURSIVE SynonymXrefs(_, _)
SynonymXrefs(st, kids) ==
    IF kids = <<>> \/ st.err # "" THEN st
    ELSE LET child == Head(kids)
             st1 == IF child.text # None
                    THEN IF XrefValid(child.text)
                         THEN [st EXCEPT !.d = AddXref(@, Xref(child.text, None))]
                         ELSE Raise(st, "ValueError")
                    ELSE Warn(st, "xref_no_text")
         IN  SynonymXrefs(st1, Tail(kids))

\* A check of the source and of the property only.
AxiomIsCompleteButTarget(axiom) ==
    \A tag \in {"owl:annotatedSource", "owl:annotatedProperty"} :
        Find(axiom, tag) # NoElem /\ Find(axiom, tag).resource # None

\* The three structural children are there and each has an rdf:resource.
AxiomIsComplete(axiom) ==
    \A tag \in {"owl:annotatedSource", "owl:annotatedProperty", "owl:annotatedTarget"} :
        Find(axiom, tag) # NoElem /\ Find(axiom, tag).resource # None

AxiomResult(ts, rs, d, e, key) ==
    [terms |-> ts, rels |-> rs, diags |-> d, err |-> e, resolved |-> key]

\* The branch of a definition axiom, the entity found.
DefinitionAxiom(axiom, ts, rs, key) ==
    LET target == Find(axiom, "owl:annotatedTarget")
        st == DefinitionXrefs(FoldState({}), IterFind(NestedIn(axiom), "oboInOwl:hasDbXref"))
        upd == UpdateEntity(ts, rs, key,
                   [EntityOf(ts, rs, key) EXCEPT
                       !.definition = [text |-> target.text, xrefs |-> st.d]])
    IN  AxiomResult(upd.terms, upd.rels, st.diags, st.err, key)

\* The branch of a cross-reference axiom, the entity found.
XrefAxiom(axiom, ts, rs, key) ==
    LET target == Find(axiom, "owl:annotatedTarget")
        label == Find(NestedIn(axiom), "rdfs:label")
        x == IF label # NoElem /\ label.text # None
             THEN Xref(target.text, label.text) ELSE Xref(target.text, None)
        upd == UpdateEntity(ts, rs, key,
                   [EntityOf(ts, rs, key) EXCEPT !.xrefs = AddXref(@, x)])
    IN  IF XrefValid(target.text)
        THEN AxiomResult(upd.terms, upd.rels, <<>>, "", key)
        ELSE AxiomResult(ts, rs, <<>>, "ValueError", key)

\* The branch of a synonym axiom, the entity found.
SynonymAxiom(axiom, ts, rs, key) ==
    LET target == Find(axiom, "owl:annotatedTarget")
        scope == ScopeOfIri(Find(axiom, "owl:annotatedProperty").resource)
        type == Find(NestedIn(axiom), "oboInOwl:hasSynonymType")
        old == EntityOf(ts, rs, key).synonyms
        found == {s \in old : s.description = target.text /\ s.scope = scope}
        description == IF target.resource # None THEN target.resource ELSE target.text
        synonym == IF found # {} THEN CHOOSE s \in found : TRUE
                   ELSE SynonymData(description, scope,
                                    IF type # NoElem THEN type.text ELSE None)
        \* whether the synonym the cross-references go to is in the set
        kept == found # {} \/ AddSynonym(old, synonym) # old
        st == SynonymXrefs(FoldState(synonym.xrefs),
                           IterFind(NestedIn(axiom), "oboInOwl:hasDbXref"))
        upd == UpdateEntity(ts, rs, key,
                   [EntityOf(ts, rs, key) EXCEPT !.synonyms =
                       IF kept THEN (@ \ {synonym}) \cup {[synonym EXCEPT !.xrefs = st.d]}
                       ELSE @])
    IN  IF found = {} /\ description = None
        THEN AxiomResult(ts, rs, <<"synonym_value">>, "", key)
        ELSE AxiomResult(upd.terms, upd.rels, st.diags, st.err, key)

\* A last branch that drops the axiom without a word.
UnknownAxiomSilent(ts, rs) == AxiomResult(ts, rs, <<>>, "", None)

\* The last branch: the property is none of the known ones.
UnknownAxiom(ts, rs) == AxiomResult(ts, rs, <<"unknown_axiom">>, "", None)

\* A test that lets every target pass, with or without text.
TargetHasTextOrNone(target) == TRUE

\* elem_target.text is not None: the test that goes with the property in
\* the branches of the definition and of the cross-reference.
TargetHasText(target) == target.text # None

\* A lookup that makes a term of the key it does not find, and goes on.
MissingEntityCreated(ts, rs, key) ==
    AxiomResult(CreateTerm(ts, key), rs, <<>>, "", key)

\* self.ont[key] of a key that is in neither table: the KeyError leaves
\* _process_axiom before anything is written.
MissingEntity(ts, rs, key) == AxiomResult(ts, rs, <<>>, "KeyError: id", key)

\* _process_axiom on one owl:Axiom element.
ProcessAxiom(axiom, ts, rs, al, m) ==
    IF ~AxiomIsComplete(axiom) THEN AxiomResult(ts, rs, <<>>, "", None)
    ELSE LET property == Find(axiom, "owl:annotatedProperty").resource
             target == Find(axiom, "owl:annotatedTarget")
             key == AxiomKey(axiom, al, m)
         IN  IF property = DefinitionIri /\ TargetHasText(target) THEN
                 IF LookupOk(ts, rs, key) THEN DefinitionAxiom(axiom, ts, rs, key)
                 ELSE MissingEntity(ts, rs, key)
             ELSE IF property = HasDbXrefIri /\ TargetHasText(target) THEN
                 IF LookupOk(ts, rs, key) THEN XrefAxiom(axiom, ts, rs, key)
                 ELSE MissingEntity(ts, rs, key)
             ELSE IF property \in SynonymIris THEN
                 IF LookupOk(ts, rs, key) THEN SynonymAxiom(axiom, ts, rs, key)
                 ELSE MissingEntity(ts, rs, key)
             ELSE UnknownAxiom(ts, rs)

(***************************************************************************)
(* parse_from: the passes over the document, one element per step.         *)
(***************************************************************************)

\* The loops in another order: the axioms before the classes.
PassOrderAxiomsEarly == <<"props", "annots", "axioms", "classes">>

\* The order of the four loops of parse_from.
PassOrder == <<"props", "annots", "classes", "axioms">>

\* The next element to process at or after element i of pass k, "done"
\* after the last loop.
RECURSIVE Advance(_, _, _)
Advance(d, k, i) ==
    IF k > Len(PassOrder) THEN [pc |-> "done", idx |-> 0]
    ELSE IF i <= Len(d[PassOrder[k]]) THEN [pc |-> PassOrder[k], idx |-> i]
    ELSE Advance(d, k + 1, 1)

PassIndex(p) == CHOOSE k \in 1..Len(PassOrder) : PassOrder[k] = p

\* What every step does with the position: stop at an exception, else go on.
Continue(err, k) ==
    /\ error' = err
    /\ done' = Append(done, [pass |-> pc, idx |-> idx])
    /\ IF err # ""
       THEN pc' = "failed" /\ idx' = idx
       ELSE LET nxt == Advance(doc, k, idx + 1) IN pc' = nxt.pc /\ idx' = nxt.idx

\* The state of a new ontology, before parse_from.
NewOntology ==
    /\ pc = "meta"
    /\ idx = 0
    /\ meta = Metadata
    /\ imports = {}
    /\ terms = <<>>
    /\ rels = <<>>
    /\ aliases = <<>>
    /\ diags = <<>>
    /\ error = ""
    /\ done = <<>>
    /\ resolved = None

\* A parse that goes on with an empty declaration when there is none.
FindOntologyOrDefault(d) ==
    IF d.ontology = <<>> THEN Elem("owl:Ontology", None, None, None, None, <<>>)
    ELSE d.ontology[1]

\* tree.find(owl:Ontology): the first such element, NoElem for None.
FindOntology(d) == IF d.ontology = <<>> THEN NoElem ELSE d.ontology[1]

\* The owl:Ontology element is found (or not), the metadata extracted and
\* the imports processed.
LoadMetadata ==
    /\ pc = "meta"
    /\ IF FindOntology(doc) = NoElem
       THEN /\ error' = "ValueError"
            /\ pc' = "failed"
            /\ idx' = idx
            /\ UNCHANGED <<meta, imports, diags>>
       ELSE LET r == ExtractMeta(FindOntology(doc))
                nxt == Advance(doc, 1, 1)
            IN  /\ diags' = diags \o r.diags
                /\ error' = r.err
                /\ IF r.err # ""
                   THEN pc' = "failed" /\ idx' = idx /\ UNCHANGED <<meta, imports>>
                   ELSE /\ meta' = r.d
                        /\ imports' = imports \cup ProcessImports(r.d.imports)
                        /\ pc' = nxt.pc
                        /\ idx' = nxt.idx
    /\ done' = Append(done, [pass |-> "meta", idx |-> 0])
    /\ UNCHANGED <<doc, terms, rels, aliases, resolved>>

ObjectPropertyStep ==
    /\ pc = "props"
    /\ LET r == ExtractObjectProperty(doc.props[idx], terms, rels, aliases, meta)
       IN  /\ rels' = r.rels
           /\ aliases' = r.aliases
           /\ diags' = diags \o r.diags
           /\ Continue(r.err, PassIndex("props"))
    /\ UNCHANGED <<doc, meta, imports, terms, resolved>>

AnnotationPropertyStep ==
    /\ pc = "annots"
    /\ LET r == ExtractAnnotationProperty(doc.annots[idx], meta)
       IN  /\ meta' = r.meta
           /\ diags' = diags \o r.diags
           /\ Continue(r.err, PassIndex("annots"))
    /\ UNCHANGED <<doc, imports, terms, rels, aliases, resolved>>

TermStep ==
    /\ pc = "classes"
    /\ LET r == ExtractTerm(doc.classes[idx], terms, rels, meta)
       IN  /\ terms' = r.terms
           /\ diags' = diags \o r.diags
           /\ Continue(r.err, PassIndex("classes"))
    /\ UNCHANGED <<doc, meta, imports, rels, aliases, resolved>>

AxiomStep ==
    /\ pc = "axioms"
    /\ LET r == ProcessAxiom(doc.axioms[idx], terms, rels, aliases, meta)
       IN  /\ terms' = r.terms
           /\ rels' = r.rels
           /\ diags' = diags \o r.diags
           /\ resolved' = r.resolved
           /\ Continue(r.err, PassIndex("axioms"))
    /\ UNCHANGED <<doc, meta, imports, aliases>>

Next ==
    \/ LoadMetadata
    \/ ObjectPropertyStep
    \/ AnnotationPropertyStep
    \/ TermStep
    \/ AxiomStep

(***************************************************************************)
(* Documents                                                               *)
(***************************************************************************)

\* The largest number of elements (properties, classes, axioms) of a document.
MaxElems == 3

\* All sequences over S of length at most n.
RECURSIVE SeqsUpTo(_, _)
SeqsUpTo(S, n) ==
    IF n <= 0 THEN {<<>>}
    ELSE LET shorter == SeqsUpTo(S, n - 1)
         IN  shorter \cup {Append(s, x) : s \in {t \in shorter : Len(t) = n - 1}, x \in S}

\* doc is a document with an owl:Ontology element of O (none when O has
\* <<>>), and at most MaxElems elements taken from P, A, C and X.
IsDocument(O, P, A, C, X) ==
    \E o \in O :
    \E p \in SeqsUpTo(P, MaxElems) :
    \E a \in SeqsUpTo(A, MaxElems - Len(p)) :
    \E c \in SeqsUpTo(C, MaxElems - Len(p) - Len(a)) :
    \E x \in SeqsUpTo(X, MaxElems - Len(p) - Len(a) - Len(c)) :
        doc = [ontology |-> o, props |-> p, annots |-> a, classes |-> c, axioms |-> x]

\* Children.
Resource(tag, resource) == Elem(tag, None, resource, None, None, <<>>)

Text(tag, text) == Elem(tag, None, None, None, text, <<>>)

Literal(tag, text) == Elem(tag, None, None, <<XSD, "s">>, text, <<>>)

Empty(tag) == Elem(tag, None, None, None, None, <<>>)

\* Elements of the document root.
Ontology(about, kids) == Elem("owl:Ontology", about, None, None, None, kids)

ObjectProperty(about, kids) == Elem("owl:ObjectProperty", about, None, None, None, kids)

AnnotationProperty(about, kids) ==
    Elem("owl:AnnotationProperty", about, None, None, None, kids)

Class(about, kids) == Elem("owl:Class", about, None, None, None, kids)

Axiom(kids) == Elem("owl:Axiom", None, None, None, None, kids)

\* An owl:Axiom with its three structural children, then others.
Target(resource, text, kids) ==
    Elem("owl:annotatedTarget", None, resource, None, text, kids)

Triple(source, property, target, others) ==
    Axiom(<<Resource("owl:annotatedSource", source),
            Resource("owl:annotatedProperty", property), target>> \o others)

\* IRIs and texts of the documents.
IriGo1 == <<OBO, "G", "O", "_", "1">>

IriGo2 == <<OBO, "G", "O", "_", "2">>

IriRo1 == <<OBO, "R", "O", "_", "1">>

IriOwn == <<OBO, "g", "#", "p">>

IriOther == <<"h", "/", "x">>

Foo == <<"f", "o", "o">>

Bar == <<"b", "a", "r">>

Pmid1 == <<"P", "M", ":", "1">>

PartOf == <<"p", "_", "o">>

\* The owl:Ontology element of ontology "g", with a few children.
OntologyG ==
    Ontology(<<OBO, "g", ".", "owl">>,
             <<Text("oboInOwl:default-namespace", <<"n">>),
               Resource("owl:imports", IriOther),
               Text("oboInOwl:date",
                    <<"1", "2", ":", "1", ":", "2", "0", "2", "1", " ", "1", ":", "0">>),
               Resource("owl:versionIRI", <<OBO, "g", "/", "1", "/", "g", ".", "owl">>),
               Empty("foaf:homepage")>>)

AnnotationProperties ==
    {AnnotationProperty(IriGo2, <<Resource("rdfs:subPropertyOf", SubsetPropertyIri)>>),
     AnnotationProperty(IriGo2, <<>>)}

\* The step that was taken last.
Last == IF done = <<>> THEN [pass |-> "none", idx |-> 0] ELSE done[Len(done)]

\* Step j of the parse processed element i of a pass.
Processed(pass, i) == \E j \in 1..Len(done) : done[j] = [pass |-> pass, idx |-> i]

(***************************************************************************)
(* The passes: documents that mix all kinds of elements, with and without  *)
(* the owl:Ontology element, with identifiers that meet.                   *)
(***************************************************************************)

PassProperties ==
    {ObjectProperty(IriGo1, <<Resource("rdf:type", <<OWL, "TransitiveProperty">>)>>),
     ObjectProperty(IriRo1, <<Text("oboInOwl:shorthand", PartOf)>>),
     ObjectProperty(None, <<Text("rdfs:label", Foo)>>)}

PassClasses ==
    {Class(IriGo1, <<Text("rdfs:label", Foo)>>),
     Class(IriGo2, <<Resource("oboInOwl:inSubset", IriOwn), Text("rdfs:comment", Foo)>>),
     Class(IriGo2, <<Text("rdfs:label", Bar), Resource("rdfs:subClassOf", IriGo1)>>),
     Class(IriRo1, <<Text("oboInOwl:id", <<"G", "O", ":", "2">>),
                     Text("oboInOwl:hasExactSynonym", Foo)>>),
     Class(None, <<Text("rdfs:label", Foo)>>)}

PassAxioms ==
    {Triple(IriGo2, DefinitionIri, Target(IriOther, Foo, <<>>), <<>>),
     Triple(IriRo1, HasDbXrefIri, Target(IriOther, Pmid1, <<>>), <<>>),
     Axiom(<<>>)}

InitPasses ==
    /\ IsDocument({<<>>, <<OntologyG>>}, PassProperties, AnnotationProperties,
                  PassClasses, PassAxioms)
    /\ NewOntology

SpecPasses == InitPasses /\ [][Next]_vars

(***************************************************************************)
(* Claims on the passes                                                    *)
(***************************************************************************)

\* The elements of a pass that the parse reads: all of them.
Indices(pass) == 1..Len(doc[pass])

\* C1.  The passes run in the order metadata, object properties, annotation
\* properties, classes, axioms: when a step processes an axiom, the metadata
\* and every object property, annotation property and class element were
\* processed before it, and when the first axiom is about to be processed
\* every relationship, term and alias the document declares exists.
C1_AxiomsRunLast ==
    /\ \A j \in 1..Len(done) :
          done[j].pass = "axioms" =>
              /\ \E h \in 1..(j - 1) : done[h].pass = "meta"
              /\ \A pass \in {"props", "annots", "classes"} : \A i \in Indices(pass) :
                    \E h \in 1..(j - 1) : done[h] = [pass |-> pass, idx |-> i]
    /\ pc = "axioms" =>
          /\ \A i \in Indices("props") :
                doc.props[i].about # None =>
                    /\ RelationshipId(doc.props[i], meta) \in DOMAIN rels
                    /\ RelationshipAlias(doc.props[i]) # None =>
                          doc.props[i].about \in DOMAIN aliases
          /\ \A i \in Indices("classes") :
                doc.classes[i].about # None => TermId(doc.classes[i], meta) \in DOMAIN terms

\* An axiom was processed in a document that has a shorthand property and a class.
C1_Witness ==
    /\ Last.pass = "axioms"
    /\ \E i \in Indices("props") : RelationshipAlias(doc.props[i]) # None
    /\ \E i \in Indices("classes") : doc.classes[i].about # None

\* C2.  Without an owl:Ontology element the parse fails in its first step:
\* metadata, imports, terms and relationships stay as they were, and no
\* property, class or axiom element is processed.
C2_MissingOntologyAborts ==
    (doc.ontology = <<>> /\ done # <<>>) =>
        /\ pc = "failed"
        /\ error = "ValueError"
        /\ done = <<[pass |-> "meta", idx |-> 0]>>
        /\ meta = Metadata
        /\ imports = {}
        /\ terms = <<>>
        /\ rels = <<>>
        /\ aliases = <<>>

\* The parse of a document with elements but no owl:Ontology has failed.
C2_Witness ==
    /\ doc.ontology = <<>>
    /\ pc = "failed"
    /\ doc.props # <<>>
    /\ doc.classes # <<>>
    /\ doc.axioms # <<>>

\* What a term holds in its sets, which extraction only ever adds to.
Accumulated(data) ==
    <<data.subsets, data.is_a, data.alternate_ids, data.replaced_by, data.consider,
      data.equivalent_to, data.disjoint_from, data.annotations,
      {<<s.description, s.scope>> : s \in data.synonyms}, {x.id : x \in data.xrefs}>>

Retains(old, new) ==
    \A k \in 1..Len(Accumulated(old)) : Accumulated(old)[k] \subseteq Accumulated(new)[k]

\* C3.  A class element whose identifier is already that of a term gets that
\* term: the step adds no entry to the term table and the record keeps what
\* it held; and extracting the same class element a second time leaves the
\* term table as the first extraction left it.
C3_GetOrCreateStable ==
    [][(pc = "classes" /\ doc.classes[idx].about # None
          /\ TermId(doc.classes[idx], meta) \in DOMAIN terms) =>
          /\ DOMAIN terms' = DOMAIN terms
          /\ Retains(terms[TermId(doc.classes[idx], meta)],
                     terms'[TermId(doc.classes[idx], meta)])
          /\ (idx > 1 /\ doc.classes[idx] = doc.classes[idx - 1]) => terms' = terms]_vars

\* The same class element, with children, was extracted twice; and a class
\* element was extracted into the term another element had made.
C3_Witness ==
    /\ Len(doc.classes) >= 2
    /\ doc.classes[1].about # None
    /\ Processed("classes", 2)
    /\ error = ""
    /\ Cardinality(DOMAIN terms) = 1
    /\ \E id \in DOMAIN terms : terms[id].name # None /\ terms[id].subsets # {}

\* C4.  No identifier is a key of both tables, and the get-or-create step of
\* an extractor gets a record of its kind for the identifier of its element.
C4_SharedIdentifiers ==
    /\ DOMAIN terms \cap DOMAIN rels = {}
    /\ ~(Last.pass \in {"props", "classes"} /\ error = "KeyError: id")

(***************************************************************************)
(* The axioms: documents whose axioms annotate synonyms, definitions and   *)
(* cross-references of terms and of aliased relationships.                 *)
(***************************************************************************)

ExactIri == <<OIO, "hasExactSynonym">>

UnknownIri == <<OIO, "hasUnknown">>

HasPart == <<"h", "_", "p">>

AxiomProperties ==
    {ObjectProperty(IriRo1, <<Text("oboInOwl:shorthand", PartOf)>>),
     ObjectProperty(IriRo1, <<Text("oboInOwl:shorthand", HasPart)>>),
     ObjectProperty(IriRo1, <<Text("oboInOwl:id", IriGo2)>>),
     ObjectProperty(IriRo1, <<Text("rdfs:label", Bar)>>)}

AxiomAnnotationProperties == {AnnotationProperty(IriGo2, <<>>)}

AxiomClasses ==
    {Class(IriGo1, <<Text("oboInOwl:hasExactSynonym", Foo)>>),
     Class(IriGo2, <<Text("rdfs:label", Bar)>>)}

AxiomAxioms ==
    {Triple(IriGo1, ExactIri, Target(IriOther, Foo, <<>>),
            <<Text("oboInOwl:hasDbXref", Pmid1)>>),
     Triple(IriGo1, ExactIri, Target(IriOther, Foo, <<Text("oboInOwl:hasDbXref", Pmid1)>>),
            <<>>),
     Triple(IriGo1, ExactIri, Target(IriOther, Bar, <<>>),
            <<Text("oboInOwl:hasSynonymType", Bar)>>),
     Triple(IriRo1, DefinitionIri, Target(IriOther, Foo, <<>>), <<>>),
     Triple(IriRo1, UnknownIri, Target(IriOther, Foo, <<>>), <<>>),
     Axiom(<<Resource("owl:annotatedSource", IriGo1),
             Resource("owl:annotatedProperty", UnknownIri),
             Text("owl:annotatedTarget", Foo)>>)}

InitAxioms ==
    /\ IsDocument({<<OntologyG>>}, AxiomProperties, AxiomAnnotationProperties,
                  AxiomClasses, AxiomAxioms)
    /\ NewOntology

SpecAxioms == InitAxioms /\ [][Next]_vars

\* The axiom the next step processes, and its structural children.
ThisAxiom == doc.axioms[idx]

Source == Find(ThisAxiom, "owl:annotatedSource")

Property == Find(ThisAxiom, "owl:annotatedProperty")

AnnotatedTarget == Find(ThisAxiom, "owl:annotatedTarget")

(***************************************************************************)
(* Claims on the axioms                                                    *)
(***************************************************************************)

\* The identifiers of the cross-references of the synonyms of an entity that
\* have a description and a scope.
SynonymXrefIds(data, description, scope) ==
    UNION {{x.id : x \in s.xrefs} :
              s \in {t \in data.synonyms : t.description = description /\ t.scope = scope}}

\* The entity has the synonym (target text, scope of the property) that a
\* synonym axiom with hasDbXref children of its own is about.
C5_Case ==
    /\ pc = "axioms"
    /\ AxiomIsComplete(ThisAxiom)
    /\ Property.resource \in SynonymIris
    /\ LookupOk(terms, rels, AxiomKey(ThisAxiom, aliases, meta))
    /\ \E s \in EntityOf(terms, rels, AxiomKey(ThisAxiom, aliases, meta)).synonyms :
          s.description = AnnotatedTarget.text /\ s.scope = ScopeOfIri(Property.resource)
    /\ IterFind(ThisAxiom, "oboInOwl:hasDbXref") # <<>>
    /\ \A c \in Range(IterFind(ThisAxiom, "oboInOwl:hasDbXref")) : XrefValid(c.text)

\* C5.  A synonym axiom on an entity that has the synonym (target, scope)
\* attaches the cross-references of its hasDbXref children to that synonym,
\* and the entity has as many synonyms after as before.
C5_SynonymAxiomAttaches ==
    [][C5_Case =>
          LET key == AxiomKey(ThisAxiom, aliases, meta)
              before == EntityOf(terms, rels, key)
              after == EntityOf(terms', rels', key)
          IN  /\ Cardinality(after.synonyms) = Cardinality(before.synonyms)
              /\ \A c \in Range(IterFind(ThisAxiom, "oboInOwl:hasDbXref")) :
                    c.text \in SynonymXrefIds(after, AnnotatedTarget.text,
                                              ScopeOfIri(Property.resource))]_vars

\* An object property element that records an alias.
Aliasing(elem) == elem.about # None /\ RelationshipAlias(elem) # None

\* What C6 says of an object property element: the relationship is made
\* under the shorthand (or id) and the alias recorded.
C6_Records ==
    (pc = "props" /\ Aliasing(doc.props[idx])) =>
        /\ doc.props[idx].about \in DOMAIN aliases'
        /\ aliases'[doc.props[idx].about] = RelationshipAlias(doc.props[idx])
        /\ RelationshipAlias(doc.props[idx]) \in DOMAIN rels'

\* C6 as claimed.  An object property element with shorthand (or id) S makes
\* the relationship S and records the alias; every later axiom on its subject
\* IRI that resolves its source resolves to the relationship S.
C6_AliasResolutionAsClaimed ==
    [][/\ C6_Records
       /\ pc = "axioms" =>
             \A i \in Indices("props") :
                (Aliasing(doc.props[i]) /\ resolved' # None
                    /\ Source.resource = doc.props[i].about) =>
                    /\ resolved' = RelationshipAlias(doc.props[i])
                    /\ resolved' \in DOMAIN rels']_vars

\* C6, amended.  The alias of a subject IRI is the one the last aliasing
\* element of that IRI recorded; an axiom on an aliased IRI resolves to the
\* compacted alias, and so, when the compactor leaves the alias S unchanged,
\* to the relationship S, which exists.
C6_AliasResolution ==
    [][/\ C6_Records
       /\ (pc = "axioms" /\ resolved' # None /\ Source.resource \in DOMAIN aliases) =>
             LET S == aliases[Source.resource]
             IN  /\ resolved' = CompactId(S, meta.ontology)
                 /\ \E i \in Indices("props") :
                       /\ doc.props[i].about = Source.resource
                       /\ RelationshipAlias(doc.props[i]) = S
                       /\ \A j \in (i + 1)..Len(doc.props) :
                             doc.props[j].about = Source.resource =>
                                 RelationshipAlias(doc.props[j]) = None
                 /\ CompactId(S, meta.ontology) = S =>
                       /\ resolved' = S
                       /\ S \in DOMAIN rels'
                       /\ error' # "KeyError: id"]_vars

\* A definition axiom on the IRI of the property part_of was resolved to the
\* relationship of the shorthand, which got the definition.
C6_Witness ==
    /\ Last.pass = "axioms"
    /\ resolved = PartOf
    /\ PartOf \in DOMAIN rels
    /\ rels[PartOf].definition.text = Foo
    /\ <<"R", "O", ":", "1">> \notin DOMAIN rels

\* The properties _process_axiom knows.
Recognized == {DefinitionIri, HasDbXrefIri} \cup SynonymIris

C7_Effect ==
    /\ Len(diags') = Len(diags) + 1
    /\ diags'[Len(diags')] = "unknown_axiom"
    /\ error' = ""
    /\ UNCHANGED <<terms, rels, meta, aliases>>

\* C7 as claimed.  An axiom whose annotated property is an IRI that is none
\* of the recognized ones adds one diagnostic and changes no term, no
\* relationship, not the metadata and not the aliases.
C7_UnknownPropertyAsClaimed ==
    [][(pc = "axioms" /\ Property # NoElem /\ Property.resource # None
           /\ Property.resource \notin Recognized) => C7_Effect]_vars

\* C7, amended: the same of an axiom whose three structural children are
\* there, each with an rdf:resource.
C7_UnknownProperty ==
    [][(pc = "axioms" /\ AxiomIsComplete(ThisAxiom)
           /\ Property.resource \notin Recognized) => C7_Effect]_vars

\* An axiom with an unknown property was processed after a class.
C7_Witness ==
    /\ Last.pass = "axioms"
    /\ AxiomIsComplete(doc.axioms[Last.idx])
    /\ Find(doc.axioms[Last.idx], "owl:annotatedProperty").resource = UnknownIri
    /\ diags # <<>>
    /\ diags[Len(diags)] = "unknown_axiom"
    /\ terms # <<>>
    /\ error = ""

(***************************************************************************)
(* The extractors: documents whose properties and classes have types,      *)
(* labels, comments and identifiers of other entities.                     *)
(***************************************************************************)

Type(name) == Resource("rdf:type", <<OWL, name>>)

ExtractProperties ==
    {ObjectProperty(IriRo1, <<Type("TransitiveProperty")>>),
     ObjectProperty(IriRo1, <<Type("ReflexiveProperty"), Type("SymmetricProperty"),
                              Text("oboInOwl:is_cyclic", <<"true">>)>>),
     ObjectProperty(IriGo1, <<Type("AsymmetricProperty"), Type("FunctionalProperty"),
                              Type("InverseFunctionalProperty"), Type("ObjectProperty")>>),
     ObjectProperty(IriRo1, <<Text("rdfs:label", Foo), Text("rdfs:label", Bar),
                              Text("rdfs:comment", Foo), Text("rdfs:comment", <<" ">>),
                              Text("rdfs:comment", Bar)>>),
     ObjectProperty(IriGo2, <<Resource("rdfs:subObjectPropertyOf", IriRo1),
                              Resource("rdfs:domain", IriGo1), Resource("rdfs:range", IriOwn),
                              Resource("oboInOwl:inSubset", IriOwn),
                              Literal("obo:IAO_0100001", IriGo1),
                              Resource("oboInOwl:consider", IriOther),
                              Text("owl:equivalentClass", IriGo1),
                              Text("oboInOwl:hasAlternativeId", IriGo1)>>)}

ExtractClasses ==
    {Class(IriGo1, <<Text("rdfs:label", Foo), Text("rdfs:label", Bar)>>),
     Class(IriGo1, <<Text("rdfs:comment", Foo), Empty("rdfs:label"),
                     Text("rdfs:comment", Bar), Text("rdfs:comment", Foo)>>),
     Class(IriGo2, <<Text("rdfs:label", Bar), Text("rdfs:comment", Foo)>>),
     Class(IriOwn, <<Resource("rdfs:subClassOf", IriGo1),
                     Text("oboInOwl:inSubset", IriOwn),
                     Text("oboInOwl:hasAlternativeId", IriGo1),
                     Resource("obo:IAO_0100001", IriGo2),
                     Literal("oboInOwl:consider", IriOwn),
                     Text("owl:equivalentClass", IriOther),
                     Resource("owl:disjointWith", IriGo2)>>)}

ExtractAxioms == {Triple(IriGo1, DefinitionIri, Target(IriOther, Foo, <<>>), <<>>)}

InitExtract ==
    /\ IsDocument({<<OntologyG>>}, ExtractProperties, AxiomAnnotationProperties,
                  ExtractClasses, ExtractAxioms)
    /\ NewOntology

SpecExtract == InitExtract /\ [][Next]_vars

(***************************************************************************)
(* Claims on the extractors                                                *)
(***************************************************************************)

\* The characteristic flag that each of the six IRIs of owl stands for.
FlagOf ==
    [transitive |-> <<OWL, "TransitiveProperty">>,
     reflexive |-> <<OWL, "ReflexiveProperty">>,
     symmetric |-> <<OWL, "SymmetricProperty">>,
     asymmetric |-> <<OWL, "AsymmetricProperty">>,
     functional |-> <<OWL, "FunctionalProperty">>,
     inverse_functional |-> <<OWL, "InverseFunctionalProperty">>]

\* The resources of the rdf:type children of an element.
TypesOf(elem) == {c.resource : c \in Range(IterFind(elem, "rdf:type"))}

\* The element has no child that sets the cyclic or the antisymmetric flag.
OnlyTypes(elem) ==
    \A c \in Range(elem.kids) : c.tag \notin {"oboInOwl:is_cyclic", "obo:IAO_0000427"}

\* The flags of the relationship of an element before and after its step;
\* a relationship the step makes starts with no flag.
FlagsBefore(id) == IF id \in DOMAIN rels THEN rels[id].flags ELSE NoFlags

\* C8.  An object property element sets the flag of each characteristic its
\* rdf:type children name and no other flag: a flag is true after the step
\* if it was before or a child names it, the cyclic and antisymmetric flags
\* stay when no child is about them; so an element whose only type is the
\* transitive property, making its relationship, has transitive true and
\* the seven other flags false.
C8_Characteristics ==
    [][(pc = "props" /\ doc.props[idx].about # None /\ error' = "") =>
          LET elem == doc.props[idx]
              id == RelationshipId(elem, meta)
              before == FlagsBefore(id)
              after == rels'[id].flags
          IN  /\ \A f \in DOMAIN FlagOf : after[f] = (before[f] \/ FlagOf[f] \in TypesOf(elem))
              /\ OnlyTypes(elem) =>
                    /\ after.cyclic = before.cyclic
                    /\ after.antisymmetric = before.antisymmetric
              /\ (OnlyTypes(elem) /\ id \notin DOMAIN rels
                     /\ TypesOf(elem) = {<<OWL, "TransitiveProperty">>}) =>
                    after = [NoFlags EXCEPT !.transitive = TRUE]]_vars

\* A property whose only type is the transitive property was extracted.
C8_Witness ==
    /\ Last.pass = "props"
    /\ error = ""
    /\ TypesOf(doc.props[Last.idx]) = {<<OWL, "TransitiveProperty">>}
    /\ rels[RelationshipId(doc.props[Last.idx], meta)].flags
          = [NoFlags EXCEPT !.transitive = TRUE]

\* The texts of the children of a tag that bear text, in document order.
TextsOf(elem, tag) ==
    LET bearing == SelectSeq(elem.kids, LAMBDA c : c.tag = tag /\ TextOf(c) # None)
    IN  [i \in 1..Len(bearing) |-> bearing[i].text]

\* The diagnostics a step added.
NewDiags == SubSeq(diags', Len(diags) + 1, Len(diags'))

\* What C9 says of an element and the data it was extracted into.
C9_Policy(elem, data) ==
    LET labels == TextsOf(elem, "rdfs:label")
        comments == TextsOf(elem, "rdfs:comment")
    IN  /\ Len(labels) >= 1 => data.name = labels[1]
        /\ Len(labels) >= 2 => "several_names" \in Range(NewDiags)
        /\ Len(comments) = 1 => data.comment = comments[1]
        /\ Len(comments) = 2 => data.comment = comments[1] \o <<"\n">> \o comments[2]
        /\ Len(comments) = 3 =>
              data.comment = comments[1] \o <<"\n">> \o comments[2] \o <<"\n">> \o comments[3]
        /\ Len(comments) >= 2 => "several_comments" \in Range(NewDiags)

\* C9.  Of several labels with text the first in document order is the name,
\* and a diagnostic is emitted; several comments with text are joined by a
\* newline in document order, and a diagnostic is emitted; for classes and
\* for object properties.
C9_LabelsAndComments ==
    [][/\ (pc = "classes" /\ doc.classes[idx].about # None /\ error' = "") =>
             C9_Policy(doc.classes[idx], terms'[TermId(doc.classes[idx], meta)])
       /\ (pc = "props" /\ doc.props[idx].about # None /\ error' = "") =>
             C9_Policy(doc.props[idx], rels'[RelationshipId(doc.props[idx], meta)])]_vars

\* A class with two labels and a property with two comments were extracted.
C9_Witness ==
    /\ Last.pass = "classes"
    /\ error = ""
    /\ \E id \in DOMAIN terms : terms[id].name = Foo
    /\ \E id \in DOMAIN rels : rels[id].comment = Foo \o <<"\n">> \o Bar
    /\ Len(TextsOf(doc.classes[Last.idx], "rdfs:label")) = 2
    /\ "several_names" \in Range(diags)
    /\ "several_comments" \in Range(diags)

\* The values a document gives in the children of its properties and classes.
ValuesRead ==
    UNION {UNION {{c.resource, c.text, c.about} : c \in Range(e.kids)} :
              e \in Range(doc.props) \cup Range(doc.classes)} \ {None}

\* The identifiers an entity stores of other entities.
StoredIds(data) ==
    data.is_a \cup data.alternate_ids \cup data.replaced_by \cup data.consider
        \cup data.equivalent_to \cup data.subsets

\* C10.  Every identifier in a relationship set, alternate-id set,
\* replaced-by, consider, equivalent-to or subset set of a term or of a
\* relationship, and every domain and range, is the compacted form of a
\* value of the document.
C10_StoredIdsCompact ==
    LET compacted == {CompactId(v, meta.ontology) : v \in ValuesRead}
    IN  /\ \A id \in DOMAIN terms : StoredIds(terms[id]) \subseteq compacted
        /\ \A id \in DOMAIN rels :
              /\ StoredIds(rels[id]) \subseteq compacted
              /\ {rels[id].domain, rels[id].range} \subseteq compacted \cup {None}

(***************************************************************************)
(* The definitions: documents whose axioms define terms and relationships  *)
(* that are there or not, with all the structural children or not, with a  *)
(* target text or not.                                                     *)
(***************************************************************************)

Pmid2 == <<"P", "M", ":", "2">>

DefinitionProperties ==
    {ObjectProperty(IriRo1, <<Text("oboInOwl:shorthand", PartOf)>>),
     ObjectProperty(IriRo1, <<Text("obo:IAO_0000115", Bar)>>)}

DefinitionClasses ==
    {Class(IriGo1, <<Text("obo:IAO_0000115", Bar), Text("rdfs:label", Foo)>>),
     Class(IriGo1, <<Text("oboInOwl:hasDbXref", Pmid1)>>)}

\* Definition axioms: cross-references under the target or under the axiom,
\* a source that no class declares, a target without text.
CompleteAxioms ==
    {Triple(IriGo1, DefinitionIri,
            Target(IriOther, Foo, <<Text("oboInOwl:hasDbXref", Pmid1)>>), <<>>),
     Triple(IriGo1, DefinitionIri, Target(IriOther, Bar, <<>>),
            <<Text("oboInOwl:hasDbXref", Pmid2)>>),
     Triple(IriGo1, DefinitionIri,
            Target(IriOther, Bar, <<Resource("oboInOwl:hasDbXref", IriOther),
                                    Empty("oboInOwl:hasDbXref")>>), <<>>),
     Triple(IriGo2, DefinitionIri, Target(IriOther, Foo, <<>>), <<>>),
     Triple(IriRo1, DefinitionIri, Target(IriOther, Foo, <<>>), <<>>),
     Triple(IriGo2, DefinitionIri, Target(IriOther, None, <<>>), <<>>),
     Triple(IriGo1, HasDbXrefIri, Target(IriOther, None, <<>>), <<>>)}

\* Axioms that lack a structural child, or the rdf:resource of one.
IncompleteAxioms ==
    {Axiom(<<Resource("owl:annotatedSource", IriGo2),
             Resource("owl:annotatedProperty", DefinitionIri),
             Text("owl:annotatedTarget", Foo)>>),
     Axiom(<<Resource("owl:annotatedProperty", DefinitionIri),
             Target(IriOther, Foo, <<>>)>>),
     Axiom(<<Resource("owl:annotatedSource", IriGo1),
             Empty("owl:annotatedProperty"),
             Target(IriOther, Foo, <<>>)>>)}

InitDefinitions ==
    /\ IsDocument({<<OntologyG>>}, DefinitionProperties, AxiomAnnotationProperties,
                  DefinitionClasses, CompleteAxioms \cup IncompleteAxioms)
    /\ NewOntology

SpecDefinitions == InitDefinitions /\ [][Next]_vars

(***************************************************************************)
(* Claims on the definitions                                               *)
(***************************************************************************)

\* The definition of every entity, by table and key.
DefinitionsOf(ts, rs) ==
    [terms |-> [id \in DOMAIN ts |-> ts[id].definition],
     rels |-> [id \in DOMAIN rs |-> rs[id].definition]]

\* The parse ends with the error of the lookup; the entities are those there
\* were, with the definitions they had.
C11_Effect ==
    /\ error' = "KeyError: id"
    /\ pc' = "failed"
    /\ DefinitionsOf(terms', rels') = DefinitionsOf(terms, rels)

\* The source of the axiom, through the aliases and compacted, is the key of
\* no entity.
C11_Dangling ==
    /\ pc = "axioms"
    /\ Property.resource = DefinitionIri
    /\ Source.resource # None
    /\ ~LookupOk(terms, rels, AxiomKey(ThisAxiom, aliases, meta))

\* C11 as claimed.  A definition axiom (property IAO_0000115) whose source,
\* through the aliases and compacted, names no term and no relationship ends
\* the parse with an error; it changes no definition and makes no entity.
C11_DanglingDefinitionAsClaimed == [][C11_Dangling => C11_Effect]_vars

\* C11, amended: the same of a definition axiom whose three structural
\* children each have an rdf:resource and whose target has text.
C11_DanglingDefinition ==
    [][(C11_Dangling /\ AxiomIsComplete(ThisAxiom) /\ AnnotatedTarget.text # None)
          => C11_Effect]_vars

\* A definition axiom on GO:2, which no class declared, ended the parse; the
\* term there was kept the definition it had.
C11_Witness ==
    /\ Last.pass = "axioms"
    /\ pc = "failed"
    /\ error = "KeyError: id"
    /\ resolved = <<"G", "O", ":", "2">>
    /\ Find(doc.axioms[Last.idx], "owl:annotatedProperty").resource = DefinitionIri
    /\ Find(doc.axioms[Last.idx], "owl:annotatedTarget").text = Foo
    /\ DOMAIN terms = {<<"G", "O", ":", "1">>}
    /\ terms[<<"G", "O", ":", "1">>].definition = Definition(Bar)

\* The axiom the step processes lacks one of its three structural children,
\* or the rdf:resource of one.
C13_Incomplete ==
    /\ pc = "axioms"
    /\ \E tag \in {"owl:annotatedSource", "owl:annotatedProperty", "owl:annotatedTarget"} :
          \/ Find(ThisAxiom, tag) = NoElem
          \/ Find(ThisAxiom, tag).resource = None

\* C13.  An axiom that lacks one of the three structural children, or the
\* rdf:resource of one, is skipped: no error, no diagnostic, no lookup of an
\* entity, and the terms, the relationships, the metadata and the aliases
\* stay as they were, also when its source names no entity.
C13_IncompleteAxiomSkipped ==
    [][C13_Incomplete =>
          /\ error' = ""
          /\ pc' # "failed"
          /\ diags' = diags
          /\ resolved' = None
          /\ UNCHANGED <<terms, rels, meta, aliases>>]_vars

\* A definition axiom whose target has no rdf:resource and whose source GO:2
\* no class declared was passed over, a term being there.
C13_Witness ==
    /\ Last.pass = "axioms"
    /\ error = ""
    /\ resolved = None
    /\ Find(doc.axioms[Last.idx], "owl:annotatedSource").resource = IriGo2
    /\ Find(doc.axioms[Last.idx], "owl:annotatedProperty").resource = DefinitionIri
    /\ Find(doc.axioms[Last.idx], "owl:annotatedTarget").resource = None
    /\ Find(doc.axioms[Last.idx], "owl:annotatedTarget").text = Foo
    /\ DOMAIN terms = {<<"G", "O", ":", "1">>}
    /\ "unknown_axiom" \notin Range(diags)

\* The identifiers of the cross-references that the hasDbXref children of an
\* element stand for: the text when there is one, else the rdf:resource.
XrefIdsUnder(elem) ==
    {IF c.text # None THEN c.text ELSE c.resource :
        c \in {k \in Range(IterFind(elem, "oboInOwl:hasDbXref")) :
                  \/ k.text # None /\ XrefValid(k.text)
                  \/ k.text = None /\ k.resource # None}}

\* A definition axiom with text, on an entity that is there.
C14_Case ==
    /\ pc = "axioms"
    /\ AxiomIsComplete(ThisAxiom)
    /\ Property.resource = DefinitionIri
    /\ AnnotatedTarget.text # None
    /\ LookupOk(terms, rels, AxiomKey(ThisAxiom, aliases, meta))

\* C14.  A definition axiom on an entity that is there replaces the
\* definition of the entity: the text is the text of the target, and the
\* cross-references are exactly those of the hasDbXref children of the axiom
\* element, whatever the definition was before; so after two definition
\* axioms the definition is that of the later one.
C14_DefinitionOverwritten ==
    [][C14_Case =>
          LET after == EntityOf(terms', rels', AxiomKey(ThisAxiom, aliases, meta)).definition
          IN  /\ after.text = AnnotatedTarget.text
              /\ {x.id : x \in after.xrefs} = XrefIdsUnder(ThisAxiom)]_vars

\* An axiom with its three structural children, each with an rdf:resource,
\* whose property is that of the definition or of the cross-reference and
\* whose target has no text.
C16_Case ==
    /\ pc = "axioms"
    /\ AxiomIsComplete(ThisAxiom)
    /\ Property.resource \in {DefinitionIri, HasDbXrefIri}
    /\ AnnotatedTarget.text = None

\* C16.  A complete axiom of property IAO_0000115 or hasDbXref whose target
\* has no text is taken as an axiom of an unknown property: the step emits
\* the one diagnostic 'unknown axiom property', looks no entity up (a source
\* that names no entity is no error) and changes no term and no relationship.
C16_TextlessTargetUnknown ==
    [][C16_Case =>
          /\ NewDiags = <<"unknown_axiom">>
          /\ error' = ""
          /\ pc' # "failed"
          /\ resolved' = None
          /\ UNCHANGED <<terms, rels>>]_vars

\* A definition axiom without target text on GO:2, which no class declared,
\* was processed after a class: a diagnostic and no error.
C16_Witness ==
    /\ Last.pass = "axioms"
    /\ error = ""
    /\ resolved = None
    /\ AxiomIsComplete(doc.axioms[Last.idx])
    /\ Find(doc.axioms[Last.idx], "owl:annotatedProperty").resource = DefinitionIri
    /\ Find(doc.axioms[Last.idx], "owl:annotatedTarget").text = None
    /\ Find(doc.axioms[Last.idx], "owl:annotatedSource").resource = IriGo2
    /\ DOMAIN terms = {<<"G", "O", ":", "1">>}
    /\ diags # <<>>
    /\ diags[Len(diags)] = "unknown_axiom"

(***************************************************************************)
(* The recovery: documents whose classes, properties and axioms have       *)
(* cross-references the constructor rejects, and replaced-by and consider  *)
(* children with and without a resource, a datatype and a text.            *)
(***************************************************************************)

\* A text that is no cross-reference.
BadXref == <<"a", " ", "b">>

\* A child with an rdf:datatype and no text.
Typed(tag) == Elem(tag, None, None, <<XSD, "s">>, None, <<>>)

RecoveryProperties ==
    {ObjectProperty(IriRo1, <<Text("oboInOwl:hasDbXref", BadXref), Text("rdfs:label", Foo)>>),
     ObjectProperty(IriRo1, <<Text("oboInOwl:hasDbXref", Pmid1)>>),
     ObjectProperty(IriRo1, <<Resource("obo:IAO_0100001", IriGo1),
                              Literal("oboInOwl:consider", IriGo2)>>),
     ObjectProperty(IriRo1, <<Text("oboInOwl:consider", IriGo1)>>),
     ObjectProperty(IriRo1, <<Typed("obo:IAO_0100001")>>)}

RecoveryClasses ==
    {Class(IriGo1, <<Text("oboInOwl:hasDbXref", BadXref), Text("rdfs:label", Foo),
                     Text("oboInOwl:hasDbXref", Pmid1)>>),
     Class(IriGo1, <<Text("oboInOwl:hasExactSynonym", Foo)>>),
     Class(IriGo2, <<Resource("oboInOwl:consider", IriGo1),
                     Literal("obo:IAO_0100001", IriGo1), Empty("oboInOwl:consider")>>),
     Class(IriGo2, <<Text("obo:IAO_0100001", IriGo1)>>),
     Class(IriGo2, <<Typed("oboInOwl:consider")>>)}

RecoveryAxioms ==
    {Triple(IriGo1, DefinitionIri,
            Target(IriOther, Foo, <<Text("oboInOwl:hasDbXref", BadXref),
                                    Text("oboInOwl:hasDbXref", Pmid1)>>), <<>>),
     Triple(IriGo1, ExactIri,
            Target(IriOther, Foo, <<Text("oboInOwl:hasDbXref", BadXref),
                                    Text("oboInOwl:hasDbXref", Pmid1)>>), <<>>),
     Triple(IriGo1, ExactIri, Target(IriOther, Foo, <<>>),
            <<Text("oboInOwl:hasDbXref", BadXref)>>)}

InitRecovery ==
    /\ IsDocument({<<OntologyG>>}, RecoveryProperties, AxiomAnnotationProperties,
                  RecoveryClasses, RecoveryAxioms)
    /\ NewOntology

SpecRecovery == InitRecovery /\ [][Next]_vars

(***************************************************************************)
(* Claims on the recovery                                                  *)
(***************************************************************************)

\* The identifiers of all the cross-references an entity holds: its own,
\* those of its definition and those of its synonyms.
XrefIds(data) ==
    {x.id : x \in data.xrefs} \cup {x.id : x \in data.definition.xrefs}
        \cup UNION {{x.id : x \in s.xrefs} : s \in data.synonyms}

\* The element has a hasDbXref child whose text the constructor rejects.
Malformed(elem) ==
    \E c \in Range(IterFind(elem, "oboInOwl:hasDbXref")) :
        c.text # None /\ ~IsSpace(c.text) /\ ~XrefValid(c.text)

\* The step did not end the parse, and no entity holds a cross-reference of
\* the rejected text.
C12_Dropped ==
    /\ error' = ""
    /\ pc' # "failed"
    /\ \A id \in DOMAIN terms' : BadXref \notin XrefIds(terms'[id])
    /\ \A id \in DOMAIN rels' : BadXref \notin XrefIds(rels'[id])

C12_InClass == pc = "classes" /\ doc.classes[idx].about # None /\ Malformed(doc.classes[idx])

C12_InProperty == pc = "props" /\ doc.props[idx].about # None /\ Malformed(doc.props[idx])

C12_InDefinitionAxiom ==
    /\ pc = "axioms"
    /\ AxiomIsComplete(ThisAxiom)
    /\ Property.resource = DefinitionIri
    /\ AnnotatedTarget.text # None
    /\ LookupOk(terms, rels, AxiomKey(ThisAxiom, aliases, meta))
    /\ Malformed(ThisAxiom) \/ Malformed(AnnotatedTarget)

C12_InSynonymAxiom ==
    /\ pc = "axioms"
    /\ AxiomIsComplete(ThisAxiom)
    /\ Property.resource \in SynonymIris
    /\ LookupOk(terms, rels, AxiomKey(ThisAxiom, aliases, meta))
    /\ Malformed(ThisAxiom) \/ Malformed(AnnotatedTarget)

\* C12.  A hasDbXref text that the constructor of cross-references rejects,
\* in a class, in an object property, or nested in a definition axiom or in a
\* synonym axiom, never ends the parse: the cross-reference is dropped and
\* the parse goes on.
C12_MalformedXrefNeverFatal ==
    [][(C12_InClass \/ C12_InProperty \/ C12_InDefinitionAxiom \/ C12_InSynonymAxiom)
          => C12_Dropped]_vars

\* The tag of the children that fill each of the two sets of successors.
SuccessorTag == [replaced_by |-> "obo:IAO_0100001", consider |-> "oboInOwl:consider"]

\* The element has replaced-by or consider children and no other child.
OnlySuccessors(elem) ==
    /\ elem.kids # <<>>
    /\ \A c \in Range(elem.kids) : c.tag \in {SuccessorTag[f] : f \in DOMAIN SuccessorTag}

\* What C15 says of an element, the data of its entity before the step and
\* after it: a child adds its compacted resource, else its compacted text;
\* each child with neither emits one diagnostic; the parse goes on.
C15_Policy(elem, before, after) ==
    /\ error' = ""
    /\ pc' # "failed"
    /\ \A f \in DOMAIN SuccessorTag :
          LET kids == IterFind(elem, SuccessorTag[f])
              valued == {c \in Range(kids) : ResourceOrText(c) # None}
          IN  /\ after[f] = before[f] \cup
                                {CompactId(ResourceOrText(c), meta.ontology) : c \in valued}
              /\ Len(SelectSeq(NewDiags, LAMBDA k : k = f))
                    = Len(SelectSeq(kids, LAMBDA c : ResourceOrText(c) = None))

\* C15.  A replaced-by or consider child of a class or of an object property
\* adds the compacted resource when it has one, else the compacted text when
\* it has one; only a child with neither emits a diagnostic and adds
\* nothing; no such child ends the parse.
C15_SuccessorsResolved ==
    [][/\ (pc = "classes" /\ doc.classes[idx].about # None
              /\ OnlySuccessors(doc.classes[idx])
              /\ TermId(doc.classes[idx], meta) \notin DOMAIN rels) =>
             LET id == TermId(doc.classes[idx], meta)
             IN  C15_Policy(doc.classes[idx],
                            IF id \in DOMAIN terms THEN terms[id] ELSE TermData(id),
                            terms'[id])
       /\ (pc = "props" /\ doc.props[idx].about # None
              /\ OnlySuccessors(doc.props[idx])
              /\ RelationshipId(doc.props[idx], meta) \notin DOMAIN terms) =>
             LET id == RelationshipId(doc.props[idx], meta)
             IN  C15_Policy(doc.props[idx],
                            IF id \in DOMAIN rels THEN rels[id] ELSE RelationshipData(id),
                            rels'[id])]_vars

====
